---------------------------- MODULE Spec2Model ----------------------------
(***************************************************************************)
(* check_mem: a monitoring probe that reads one sysinfo() snapshot,        *)
(* compares free/shared/buffer/used memory against percentage thresholds   *)
(* and prints one status line with performance data (src/check_mem.cpp).   *)
(*                                                                         *)
(* Number representation.  The program computes in double and unsigned     *)
(* long.  The model uses exact integer arithmetic:                         *)
(*   - a percentage is held in hundredths (34.01 % is 3401), which is      *)
(*     what static_cast<unsigned long>(10000.0 * v / max) yields before    *)
(*     the final division by 100.;                                         *)
(*   - a human-unit quantity is held in thousandths;                       *)
(*   - thresholds are whole percents;                                      *)
(*   - the double returned by getRaw is an exact fraction num/den.         *)
(* Quotients of integers are exact in double at these magnitudes; where    *)
(* the double product pct / 100. * max is not, DoubleFallsShort lists the  *)
(* inputs.  An unsigned long that wrapped below zero is held as the        *)
(* negative integer x that stands for 2^64 + x.  Huge stands for any       *)
(* number above the model's integer range (it is only compared and         *)
(* divided by).                                                            *)
(***************************************************************************)
EXTENDS Integers, Sequences, FiniteSets, TLC

VARIABLES
    argv,          \* the command line handed to main (input)
    os,            \* what sysinfo() will answer (environment)
    pc,            \* position in main
    args,          \* the nine TCLAP::ValueArg objects
    si,            \* struct sysinfo after the call
    unit,          \* const unsigned int unit
    bytesPerUnit,  \* const unsigned int bytesPerUnit
    free,          \* Value free
    shared,        \* Value shared
    buffer,        \* Value buffer
    used,          \* Value used
    s,             \* status s
    reason,        \* std::string reason
    cs,            \* per category: what Value::check returned inside check()
    out,           \* lines written to std::cout
    exitCode       \* value returned from main, NoExit while running

vars == << argv, os, pc, args, si, unit, bytesPerUnit, free, shared, buffer,
           used, s, reason, cs, out, exitCode >>

---------------------------------------------------------------------------
\* Bounds of the model.

\* memory counters of the general snapshots range over 0..MaxRam
MaxRam == 4

---------------------------------------------------------------------------
\* enum class status
OK == 0
WARNING == 1
CRITICAL == 2
UNKNOWN == 3

\* const std::array<std::string, 7> units
units == << "B", "kB", "MB", "GB", "TB", "PB", "EB" >>

status_name(st) ==
    CASE st = OK -> "OK"
      [] st = WARNING -> "WARNING"
      [] st = CRITICAL -> "CRITICAL"
      [] st = UNKNOWN -> "UNKNOWN"
      [] OTHER -> ""

\* A number above the integer range of the model.
Huge == 2147483646 + 1

\* What an out-of-range or NaN double-to-unsigned conversion can yield
\* (undefined behaviour): zero on builds that wrap, the largest value on
\* builds that saturate.
CastOutcomes == { 0, Huge }

NoExit == 0 - 1

Categories == { "free", "shared", "buffer", "used" }

\* the order in which main evaluates the categories
EvalOrder == << "free", "shared", "buffer", "used" >>

---------------------------------------------------------------------------
\* class Value

\* Value( unsigned long value ): max = -1 (ULONG_MAX), both percentages -1
Value(v) ==
    [ value |-> v, max |-> 0 - 1,
      warningPercentage |-> 0 - 1, criticalPercentage |-> 0 - 1 ]

setMaximum(v, m) == [ v EXCEPT !.max = m ]

setLimits(v, w, c) ==
    [ v EXCEPT !.warningPercentage = w, !.criticalPercentage = c ]

\* getRaw< T >: the double as an exact fraction num/den; pct is the
\* threshold when the double was computed as pct / 100. * max (0 otherwise)
getRaw(T, v) ==
    CASE T = "VALUE" -> [ num |-> v.value, den |-> 1, pct |-> 0 ]
      [] T = "MAX" -> [ num |-> v.max, den |-> 1, pct |-> 0 ]
      [] T = "WARNING" -> [ num |-> v.warningPercentage * v.max, den |-> 100,
                            pct |-> v.warningPercentage ]
      [] T = "CRITICAL" -> [ num |-> v.criticalPercentage * v.max, den |-> 100,
                             pct |-> v.criticalPercentage ]

\* Where IEEE double arithmetic differs from exact arithmetic: the inputs
\* << scale, pct, max, divisor >> for which scale * (pct / 100. * max) /
\* divisor, evaluated in double, lies just below the integer the exact
\* quotient is, so that the cast yields one less.  Listed for pct in
\* { 5, 10, 20, 30, 40, 50, 60, 90, 95 }, max in 1..7 and { 100, 1000, 2007 },
\* divisor max (percentage) or a power of 1024 over 1 or 4096 (human), the
\* thresholds and maxima the inputs below draw from.  Quotients of the
\* counters themselves (value / max, value / bytesPerUnit) are exact.
DoubleFallsShort ==
    { << 1000, 30, 3, 1 >>, << 1000, 30, 6, 1 >>, << 1000, 60, 3, 1 >>,
      << 1000, 60, 6, 1 >>, << 1000, 95, 3, 1 >>, << 1000, 95, 6, 1 >>,
      << 1000, 95, 7, 1 >>, << 1000, 95, 2007, 1 >>,
      << 10000, 95, 3, 3 >>, << 10000, 95, 6, 6 >> }

\* Mutant of TruncatedQuotient: rounds to the nearest unit instead of
\* truncating.
TruncatedQuotient_rounds(scale, r, divisor, ub) ==
    IF divisor = 0
      THEN IF r.num = 0 THEN ub.nan ELSE ub.overflow
      ELSE IF r.num < 0
             THEN IF divisor <= scale THEN ub.overflow ELSE Huge
             ELSE (2 * ((scale * r.num) \div r.den) + divisor) \div (2 * divisor)

\* static_cast< unsigned long >( scale * (num/den) / divisor ).
\* ub.overflow / ub.nan: what the build yields when the double is out of
\* range (infinite included) or NaN.  A wrapped numerator (num < 0, standing
\* for 2^64 + num) gives a quotient of at least 2^64 unless the divisor is
\* larger than the scale.  For a threshold, r.num \div r.pct is max.
TruncatedQuotient(scale, r, divisor, ub) ==
    IF divisor = 0
      THEN IF r.num = 0 THEN ub.nan ELSE ub.overflow
      ELSE IF r.num < 0
             THEN IF divisor <= scale THEN ub.overflow ELSE Huge
             ELSE ((scale * r.num) \div r.den) \div divisor
                  - ( IF r.pct > 0 /\ << scale, r.pct, r.num \div r.pct, divisor >>
                                         \in DoubleFallsShort
                        THEN 1 ELSE 0 )

\* get< T, U >( bytesPerUnit ): PERCENTAGE in hundredths, HUMAN in
\* thousandths (unitType::RAW is never instantiated by the program)
get(T, U, v, bpu, ub) ==
    CASE U = "PERCENTAGE" -> TruncatedQuotient(10000, getRaw(T, v), v.max, ub)
      [] U = "HUMAN" -> TruncatedQuotient(1000, getRaw(T, v), bpu, ub)

\* Mutant of Value_check: the warning threshold is tested first.
Value_check_warningFirst(LESS, v, ub) ==
    LET val == get("VALUE", "PERCENTAGE", v, 1, ub)
        exceededCritical ==
            IF LESS THEN val < 100 * v.criticalPercentage
                    ELSE val > 100 * v.criticalPercentage
        exceededWarning ==
            IF LESS THEN val < 100 * v.warningPercentage
                    ELSE val > 100 * v.warningPercentage
    IN  IF v.warningPercentage > 0 /\ exceededWarning
          THEN [ status |-> WARNING, exceededValue |-> v.warningPercentage,
                 val |-> val ]
          ELSE IF v.criticalPercentage > 0 /\ exceededCritical
                 THEN [ status |-> CRITICAL, exceededValue |-> v.criticalPercentage,
                        val |-> val ]
                 ELSE [ status |-> OK, exceededValue |-> 0, val |-> val ]

\* Mutant of Value_check: the comparisons are not strict (<=, >=).
Value_check_nonStrict(LESS, v, ub) ==
    LET val == get("VALUE", "PERCENTAGE", v, 1, ub)
        exceededCritical ==
            IF LESS THEN val <= 100 * v.criticalPercentage
                    ELSE val >= 100 * v.criticalPercentage
        exceededWarning ==
            IF LESS THEN val <= 100 * v.warningPercentage
                    ELSE val >= 100 * v.warningPercentage
    IN  IF v.criticalPercentage > 0 /\ exceededCritical
          THEN [ status |-> CRITICAL, exceededValue |-> v.criticalPercentage,
                 val |-> val ]
          ELSE IF v.warningPercentage > 0 /\ exceededWarning
                 THEN [ status |-> WARNING, exceededValue |-> v.warningPercentage,
                        val |-> val ]
                 ELSE [ status |-> OK, exceededValue |-> 0, val |-> val ]

\* Value::check< LESS >: the status and the exceededValue out-parameter
\* (left at the caller's 0 when nothing is exceeded); val is the local val.
Value_check(LESS, v, ub) ==
    LET val == get("VALUE", "PERCENTAGE", v, 1, ub)
        exceededCritical ==
            IF LESS THEN val < 100 * v.criticalPercentage
                    ELSE val > 100 * v.criticalPercentage
        exceededWarning ==
            IF LESS THEN val < 100 * v.warningPercentage
                    ELSE val > 100 * v.warningPercentage
    IN  IF v.criticalPercentage > 0 /\ exceededCritical
          THEN [ status |-> CRITICAL, exceededValue |-> v.criticalPercentage,
                 val |-> val ]
          ELSE IF v.warningPercentage > 0 /\ exceededWarning
                 THEN [ status |-> WARNING, exceededValue |-> v.warningPercentage,
                        val |-> val ]
                 ELSE [ status |-> OK, exceededValue |-> 0, val |-> val ]

\* one ';'-separated field of the performance data
Num(n, suffix) == [ lit |-> "", n |-> n, suffix |-> suffix ]
Lit(text) == [ lit |-> text, n |-> 0, suffix |-> "" ]

\* Mutant of getPerfData: the limits are printed when either threshold is
\* enabled (|| for &&).
getPerfData_eitherEnabled(U, v, bpu, u, ub) ==
    << Num(get("VALUE", U, v, bpu, ub),
           IF U = "PERCENTAGE" THEN "%" ELSE units[u + 1]) >>
    \o ( IF v.warningPercentage > 0 \/ v.criticalPercentage > 0
           THEN << Num(get("WARNING", U, v, bpu, ub), ""),
                   Num(get("CRITICAL", U, v, bpu, ub), "") >>
           ELSE << Lit("U"), Lit("U") >> )
    \o << Lit("0") >>
    \o << Num(get("MAX", U, v, bpu, ub), "") >>

\* Value::getPerfData< U >: value<unit>;warn;crit;0;max
getPerfData(U, v, bpu, u, ub) ==
    << Num(get("VALUE", U, v, bpu, ub),
           IF U = "PERCENTAGE" THEN "%" ELSE units[u + 1]) >>
    \o ( IF v.warningPercentage > 0 /\ v.criticalPercentage > 0
           THEN << Num(get("WARNING", U, v, bpu, ub), ""),
                   Num(get("CRITICAL", U, v, bpu, ub), "") >>
           ELSE << Lit("U"), Lit("U") >> )
    \o << Lit("0") >>
    \o << Num(get("MAX", U, v, bpu, ub), "") >>

---------------------------------------------------------------------------
\* The inputs.

\* a flag as it appears (or not) on the command line
NotGiven == [ given |-> FALSE, value |-> 0 ]
Given(x) == [ given |-> TRUE, value |-> x ]

ArgNames ==
    { "unit", "freeWarning", "freeCritical", "usedWarning", "usedCritical",
      "bufferWarning", "bufferCritical", "sharedWarning", "sharedCritical" }

ThresholdArgNames == ArgNames \ { "unit" }

\* the arguments as constructed: not set, holding their default
DefaultArgs ==
    [ unit |-> [ isSet |-> FALSE, value |-> 2 ],
      freeWarning |-> [ isSet |-> FALSE, value |-> 10 ],
      freeCritical |-> [ isSet |-> FALSE, value |-> 5 ],
      usedWarning |-> [ isSet |-> FALSE, value |-> 90 ],
      usedCritical |-> [ isSet |-> FALSE, value |-> 95 ],
      bufferWarning |-> [ isSet |-> FALSE, value |-> 90 ],
      bufferCritical |-> [ isSet |-> FALSE, value |-> 95 ],
      sharedWarning |-> [ isSet |-> FALSE, value |-> 90 ],
      sharedCritical |-> [ isSet |-> FALSE, value |-> 95 ] ]

\* a command line: well-formed or not, and the flags given
CmdLine(ok, flags) == [ ok |-> ok, flags |-> flags ]

NoFlags == [ a \in ArgNames |-> NotGiven ]

\* every flag of the four pairs given, (w, c) for free and (w2, c2) for the rest
AllPairs(w, c, w2, c2) ==
    [ a \in ArgNames |->
        CASE a = "unit" -> NotGiven
          [] a = "freeWarning" -> Given(w)
          [] a = "freeCritical" -> Given(c)
          [] a \in { "usedWarning", "bufferWarning", "sharedWarning" } -> Given(w2)
          [] OTHER -> Given(c2) ]

\* threshold values of the general command lines
ThresholdVals == { 20, 30 }

\* every combination of the eight threshold flags, each absent or given
ThresholdCmdLines ==
    { CmdLine(TRUE, [ a \in ArgNames |-> IF a = "unit" THEN NotGiven ELSE f[a] ]) :
        f \in [ ThresholdArgNames -> { NotGiven } \cup { Given(x) : x \in ThresholdVals } ] }

\* a handful of command lines used with every snapshot
FewCmdLines ==
    { CmdLine(FALSE, NoFlags),
      CmdLine(TRUE, NoFlags),
      CmdLine(TRUE, AllPairs(10, 5, 90, 95)),
      CmdLine(TRUE, AllPairs(60, 40, 40, 60)),
      CmdLine(TRUE, AllPairs(30, 30, 20, 0)),
      CmdLine(TRUE, AllPairs(0 - 1, 50, 0, 0)),
      CmdLine(TRUE, [ AllPairs(60, 40, 40, 60) EXCEPT !.freeCritical = NotGiven,
                                                      !.usedWarning = NotGiven ]) }

WithUnit(c, u) == [ c EXCEPT !.flags.unit = Given(u) ]

\* the unit exponents the help text and the units table cover
UnitArgs == 0 .. (Len(units) - 1)

\* native unit sizes sysinfo reports: bytes, or pages on 32-bit kernels
MemUnits == { 1, 4096 }

Snapshot(t, f, sh, b, mu) ==
    [ err |-> FALSE, totalram |-> t, freeram |-> f, sharedram |-> sh,
      bufferram |-> b, mem_unit |-> mu ]

SysinfoFails == [ err |-> TRUE, totalram |-> 0, freeram |-> 0, sharedram |-> 0,
                  bufferram |-> 0, mem_unit |-> 0 ]

\* snapshots a running kernel reports: free, shared and buffer pages are
\* disjoint parts of total
GeneralSnapshots ==
    { Snapshot(t, f, sh, b, mu) :
        t \in 1 .. MaxRam, f \in 0 .. MaxRam, sh \in 0 .. MaxRam,
        b \in 0 .. MaxRam, mu \in MemUnits }

KernelSnapshots == { x \in GeneralSnapshots :
                       x.freeram + x.sharedram + x.bufferram <= x.totalram }

\* the scenarios of the specification
ScenarioSnapshots ==
    { Snapshot(1000, 50, 0, 0, 1),     \* used 95.0 %, free 5.0 %
      Snapshot(2007, 602, 0, 0, 1),    \* free 29.995.. %
      Snapshot(100, 25, 24, 26, 1) }   \* four categories near a quarter

---------------------------------------------------------------------------
\* State after the declarations at the top of main, before cmd.parse.

NoValue == Value(0)

StartOfMain ==
    /\ pc = "parse"
    /\ args = DefaultArgs
    /\ si = SysinfoFails
    /\ unit = 0
    /\ bytesPerUnit = 0
    /\ free = NoValue /\ shared = NoValue /\ buffer = NoValue /\ used = NoValue
    /\ s = OK
    /\ reason = << >>
    /\ cs = [ c \in Categories |-> [ done |-> FALSE, status |-> OK,
                                     exceededValue |-> 0, val |-> 0 ] ]
    /\ out = << >>
    /\ exitCode = NoExit

\* Inputs: every combination of threshold flags on one snapshot; a few
\* command lines on every kernel snapshot; every unit on a few snapshots.
Init ==
    /\ \/ /\ argv \in ThresholdCmdLines
          /\ os = Snapshot(100, 25, 24, 26, 1)
       \/ /\ argv \in FewCmdLines
          /\ os \in KernelSnapshots \cup ScenarioSnapshots \cup { SysinfoFails }
       \/ /\ argv \in { WithUnit(c, u) : c \in FewCmdLines, u \in UnitArgs }
          /\ os \in { Snapshot(4, 1, 1, 1, mu) : mu \in MemUnits }
                    \cup { Snapshot(3, 0, 1, 0, mu) : mu \in MemUnits }
    /\ StartOfMain

\* Inputs for the arithmetic of used: any four counters.
InitAnySnapshot ==
    /\ argv \in FewCmdLines
    /\ os \in GeneralSnapshots \cup { SysinfoFails }
    /\ StartOfMain

---------------------------------------------------------------------------
\* main

\* cmd.parse( argc, argv ) and the catch block
Parse ==
    /\ pc = "parse"
    /\ \/ /\ ~argv.ok
          /\ out' = Append(out, [ kind |-> "argument error" ])
          /\ exitCode' = UNKNOWN
          /\ pc' = "done"
          /\ UNCHANGED args
       \/ /\ argv.ok
          /\ args' = [ a \in ArgNames |->
                         IF argv.flags[a].given
                           THEN [ isSet |-> TRUE, value |-> argv.flags[a].value ]
                           ELSE args[a] ]
          /\ pc' = "sysinfo"
          /\ UNCHANGED << out, exitCode >>
    /\ UNCHANGED << argv, os, si, unit, bytesPerUnit, free, shared, buffer,
                    used, s, reason, cs >>

\* Mutant of Sysinfo: the error branch prints the diagnostic and falls
\* through instead of returning.
Sysinfo_noReturn ==
    /\ pc = "sysinfo"
    /\ \/ /\ os.err
          /\ out' = Append(out, [ kind |-> "sysinfo error" ])
          /\ si' = os
          /\ pc' = "setup"
          /\ UNCHANGED exitCode
       \/ /\ ~os.err
          /\ si' = os
          /\ pc' = "setup"
          /\ UNCHANGED << out, exitCode >>
    /\ UNCHANGED << argv, os, args, unit, bytesPerUnit, free, shared, buffer,
                    used, s, reason, cs >>

\* int err = sysinfo( &si ) and the error return
Sysinfo ==
    /\ pc = "sysinfo"
    /\ \/ /\ os.err
          /\ out' = Append(out, [ kind |-> "sysinfo error" ])
          /\ exitCode' = UNKNOWN
          /\ pc' = "done"
          /\ UNCHANGED si
       \/ /\ ~os.err
          /\ si' = os
          /\ pc' = "setup"
          /\ UNCHANGED << out, exitCode >>
    /\ UNCHANGED << argv, os, args, unit, bytesPerUnit, free, shared, buffer,
                    used, s, reason, cs >>

RECURSIVE Log2(_)
Log2(n) == IF n <= 1 THEN 0 ELSE 1 + Log2(n \div 2)

\* const unsigned int bytesPerUnit = std::pow(1024, unit) / si.mem_unit:
\* the outcomes of converting the double 2^(10*unit) / mem_unit (mem_unit a
\* power of two) to a 32-bit unsigned.  Below 1 it truncates to 0; from 2^32
\* on the conversion is undefined.
BytesPerUnitOutcomes(u, mu) ==
    LET e == 10 * u - Log2(mu)
    IN  IF e < 0 THEN { 0 }
        ELSE IF e < 31 THEN { 2 ^ e }
        ELSE IF e = 31 THEN { Huge }
        ELSE CastOutcomes

\* unsigned long subtraction, modulo 2^64: a negative result x stands for
\* 2^64 + x
UnsignedSub(a, b) == a - b

\* Mutant of UsedOf: shared memory is not subtracted.
UsedOf_withoutShared(i) ==
    UnsignedSub(UnsignedSub(i.totalram, i.freeram), i.bufferram)

\* si.totalram - si.freeram - si.sharedram - si.bufferram
UsedOf(i) ==
    UnsignedSub(UnsignedSub(UnsignedSub(i.totalram, i.freeram), i.sharedram),
                i.bufferram)

\* unit, bytesPerUnit and the five Value objects
Setup ==
    /\ pc = "setup"
    /\ unit' = args.unit.value
    /\ bytesPerUnit' \in BytesPerUnitOutcomes(args.unit.value, si.mem_unit)
    /\ free' = setMaximum(Value(si.freeram), si.totalram)
    /\ shared' = setMaximum(Value(si.sharedram), si.totalram)
    /\ buffer' = setMaximum(Value(si.bufferram), si.totalram)
    /\ used' = setMaximum(Value(UsedOf(si)), si.totalram)
    /\ pc' = "limits"
    /\ UNCHANGED << argv, os, args, si, s, reason, cs, out, exitCode >>

\* Mutant of LimitsFor: one supplied flag is enough (|| for &&).
LimitsFor_eitherFlag(v, wArg, cArg) ==
    IF wArg.isSet \/ cArg.isSet THEN setLimits(v, wArg.value, cArg.value) ELSE v

\* if ( xWarningArg.isSet() && xCriticalArg.isSet() ) x.setLimits( ... )
LimitsFor(v, wArg, cArg) ==
    IF wArg.isSet /\ cArg.isSet THEN setLimits(v, wArg.value, cArg.value) ELSE v

SetLimits ==
    /\ pc = "limits"
    /\ free' = LimitsFor(free, args.freeWarning, args.freeCritical)
    /\ used' = LimitsFor(used, args.usedWarning, args.usedCritical)
    /\ buffer' = LimitsFor(buffer, args.bufferWarning, args.bufferCritical)
    /\ shared' = LimitsFor(shared, args.sharedWarning, args.sharedCritical)
    /\ pc' = "checkFree"
    /\ UNCHANGED << argv, os, args, si, unit, bytesPerUnit, s, reason, cs,
                    out, exitCode >>

\* Mutant of check: the result always replaces the running severity.
check_alwaysOverwrite(LESS, r, s0, reason0) ==
    [ s |-> r.status,
      reason |-> IF r.status > OK
                   THEN << r.val, IF LESS THEN " < " ELSE " > ", r.exceededValue >>
                   ELSE reason0 ]

\* Mutant of check: an equally severe result replaces the explanation
\* (>= for >).
check_overwriteOnEqual(LESS, r, s0, reason0) ==
    IF r.status >= s0 /\ r.status > OK
      THEN [ s |-> r.status,
             reason |-> << r.val, IF LESS THEN " < " ELSE " > ", r.exceededValue >> ]
      ELSE [ s |-> s0, reason |-> reason0 ]

\* template< bool LESS > void check( const Value &v, status &s, std::string &reason ):
\* the new (s, reason) given what Value::check returned
check(LESS, r, s0, reason0) ==
    IF r.status > s0
      THEN [ s |-> r.status,
             reason |-> << r.val, IF LESS THEN " < " ELSE " > ", r.exceededValue >> ]
      ELSE [ s |-> s0, reason |-> reason0 ]

\* one call check< LESS >( v, s, reason ) of main
CheckStep(here, next, cat, LESS, v) ==
    /\ pc = here
    /\ \E o \in CastOutcomes :
         LET r == Value_check(LESS, v, [ overflow |-> o, nan |-> o ])
             n == check(LESS, r, s, reason)
         IN  /\ s' = n.s
             /\ reason' = n.reason
             /\ cs' = [ cs EXCEPT ![cat] = [ done |-> TRUE, status |-> r.status,
                                            exceededValue |-> r.exceededValue,
                                            val |-> r.val ] ]
    /\ pc' = next
    /\ UNCHANGED << argv, os, args, si, unit, bytesPerUnit, free, shared,
                    buffer, used, out, exitCode >>

CheckFree == CheckStep("checkFree", "checkShared", "free", TRUE, free)
CheckShared == CheckStep("checkShared", "checkBuffer", "shared", FALSE, shared)
CheckBuffer == CheckStep("checkBuffer", "checkUsed", "buffer", FALSE, buffer)
CheckUsed == CheckStep("checkUsed", "print", "used", FALSE, used)

\* the output line: status name, reason, eight performance fields
ReportLine(ub) ==
    [ kind |-> "report",
      status |-> status_name(s),
      reason |-> reason,
      perf |-> << << "used", getPerfData("HUMAN", used, bytesPerUnit, unit, ub) >>,
                  << "free", getPerfData("HUMAN", free, bytesPerUnit, unit, ub) >>,
                  << "shared", getPerfData("HUMAN", shared, bytesPerUnit, unit, ub) >>,
                  << "buffer", getPerfData("HUMAN", buffer, bytesPerUnit, unit, ub) >>,
                  << "used", getPerfData("PERCENTAGE", used, bytesPerUnit, unit, ub) >>,
                  << "free", getPerfData("PERCENTAGE", free, bytesPerUnit, unit, ub) >>,
                  << "shared", getPerfData("PERCENTAGE", shared, bytesPerUnit, unit, ub) >>,
                  << "buffer", getPerfData("PERCENTAGE", buffer, bytesPerUnit, unit, ub) >> >> ]

\* build the line, write it, return s
PrintReport ==
    /\ pc = "print"
    /\ \E o \in CastOutcomes, n \in CastOutcomes :
         out' = Append(out, ReportLine([ overflow |-> o, nan |-> n ]))
    /\ exitCode' = s
    /\ pc' = "done"
    /\ UNCHANGED << argv, os, args, si, unit, bytesPerUnit, free, shared,
                    buffer, used, s, reason, cs >>

Next ==
    \/ Parse
    \/ Sysinfo
    \/ Setup
    \/ SetLimits
    \/ CheckFree
    \/ CheckShared
    \/ CheckBuffer
    \/ CheckUsed
    \/ PrintReport

Spec == Init /\ [][Next]_vars

SpecAnySnapshot == InitAnySnapshot /\ [][Next]_vars

---------------------------------------------------------------------------
\* Vocabulary of the properties.

ValueOf(cat) ==
    CASE cat = "free" -> free
      [] cat = "shared" -> shared
      [] cat = "buffer" -> buffer
      [] cat = "used" -> used

WarningFlag(cat) ==
    CASE cat = "free" -> "freeWarning"
      [] cat = "shared" -> "sharedWarning"
      [] cat = "buffer" -> "bufferWarning"
      [] cat = "used" -> "usedWarning"

CriticalFlag(cat) ==
    CASE cat = "free" -> "freeCritical"
      [] cat = "shared" -> "sharedCritical"
      [] cat = "buffer" -> "bufferCritical"
      [] cat = "used" -> "usedCritical"

\* free is evaluated with the below-policy, the others with the above-policy
Below(cat) == cat = "free"

\* the Value objects exist and hold their final limits
LimitsApplied == pc \in { "checkFree", "checkShared", "checkBuffer", "checkUsed",
                          "print", "done" }

\* all four categories were evaluated
Evaluated == \A c \in Categories : cs[c].done

\* the run ended on one of the two failure paths
Failed == pc = "done" /\ (~argv.ok \/ os.err)

MaxOf(S) == CHOOSE x \in S : \A y \in S : y <= x

\* the exact percentage of a category in hundredths, truncated:
\* floor(10000 * value / max)
FloorPercent(cat) == (10000 * ValueOf(cat).value) \div ValueOf(cat).max

\* the exceed-condition of a category's policy for percentage h (hundredths)
\* against threshold t (percent)
Exceeds(cat, h, t) == IF Below(cat) THEN h < 100 * t ELSE h > 100 * t

\* the report line, once printed
Report == out[Len(out)]
Reported == pc = "done" /\ ~Failed

---------------------------------------------------------------------------
\* C1: whenever the run reaches evaluation, the running severity is the
\* maximum of the severities of the categories evaluated so far; at the end
\* the severity named in the output line and the exit code equal the maximum
\* of the four individual severities, and no individual severity is UNKNOWN.
C1_SeverityIsMaximum ==
    /\ \A c \in Categories : cs[c].status \in { OK, WARNING, CRITICAL }
    /\ s = MaxOf({ OK } \cup { cs[c].status : c \in { d \in Categories : cs[d].done } })
    /\ Reported =>
         /\ Evaluated
         /\ exitCode = MaxOf({ cs[c].status : c \in Categories })
         /\ exitCode \in { 0, 1, 2 }
         /\ Report.status = status_name(MaxOf({ cs[c].status : c \in Categories }))

\* a run in which the maximum is reached in the middle of the order and a
\* less severe category follows
C1_Witness ==
    /\ Reported
    /\ cs["free"].status = WARNING
    /\ cs["shared"].status = CRITICAL
    /\ cs["buffer"].status = OK
    /\ cs["used"].status = WARNING
    /\ exitCode = 2

\* C2: in either direction, a category whose thresholds are both enabled
\* and whose percentage satisfies both exceed-conditions evaluates to
\* CRITICAL with the critical threshold as the exceeded value.
C2_CriticalBeforeWarning ==
    \A c \in Categories :
        ( /\ cs[c].done
          /\ ValueOf(c).warningPercentage > 0
          /\ ValueOf(c).criticalPercentage > 0
          /\ Exceeds(c, FloorPercent(c), ValueOf(c).warningPercentage)
          /\ Exceeds(c, FloorPercent(c), ValueOf(c).criticalPercentage) )
        => /\ cs[c].status = CRITICAL
           /\ cs[c].exceededValue = ValueOf(c).criticalPercentage

\* both directions at once, with warning and critical thresholds that differ
C2_Witness ==
    /\ Evaluated
    /\ free.warningPercentage = 60 /\ free.criticalPercentage = 40
    /\ FloorPercent("free") < 4000
    /\ used.warningPercentage = 40 /\ used.criticalPercentage = 60
    /\ FloorPercent("used") > 6000
    /\ cs["free"].exceededValue = 40 /\ cs["used"].exceededValue = 60

\* C3: a category for which not both flags were supplied keeps both
\* thresholds disabled (-1), and a category whose thresholds are both
\* disabled evaluates to OK whatever the snapshot.
C3_BothFlagsOrDisabled ==
    LimitsApplied =>
        \A c \in Categories :
            /\ ~(argv.flags[WarningFlag(c)].given /\ argv.flags[CriticalFlag(c)].given)
                 => /\ ValueOf(c).warningPercentage = 0 - 1
                    /\ ValueOf(c).criticalPercentage = 0 - 1
            /\ ( /\ cs[c].done
                 /\ ValueOf(c).warningPercentage <= 0
                 /\ ValueOf(c).criticalPercentage <= 0 )
                 => cs[c].status = OK

\* only --free-warning was given, free memory is below it, and free is OK
C3_Witness ==
    /\ Reported
    /\ argv.flags["freeWarning"].given
    /\ ~argv.flags["freeCritical"].given
    /\ FloorPercent("free") < 100 * argv.flags["freeWarning"].value
    /\ cs["free"].status = OK
    /\ exitCode = 0

C5_FailureIsUnknown ==
    /\ Failed => /\ exitCode = UNKNOWN
                 /\ Len(out) = 1
                 /\ out[1].kind \in { "argument error", "sysinfo error" }
                 /\ \A c \in Categories : ~cs[c].done
    /\ (\E i \in 1 .. Len(out) : out[i].kind # "report") => Failed
    /\ exitCode = UNKNOWN => Failed
    /\ (~argv.ok /\ pc # "parse") => Failed
    /\ (argv.ok /\ os.err /\ pc \notin { "parse", "sysinfo" }) => Failed

\* the sysinfo failure after a successful parse
C5_Witness ==
    /\ argv.ok /\ os.err
    /\ pc = "done"
    /\ exitCode = UNKNOWN
    /\ out = << [ kind |-> "sysinfo error" ] >>

\* C6: each of the eight performance fields is value<unit>;warn;crit;0;max;
\* the minimum is the literal 0; warn;crit is U;U exactly when at least one
\* threshold of the category is disabled (<= 0); otherwise both are numbers
\* in the representation of the value: the threshold itself for the
\* percentage form and floor(1000 * (t/100 * max) / bytesPerUnit) thousandths
\* for the human form (stated where bytesPerUnit is not zero), or one unit
\* of the last printed digit less where the double product t/100 * max
\* falls short of the exact one.
UpTo(n, q) == n = q \/ n = q - 1

C6_PerfField(i) ==
    LET name == Report.perf[i][1]
        f == Report.perf[i][2]
        v == ValueOf(name)
        human == i <= 4
        disabled == v.warningPercentage <= 0 \/ v.criticalPercentage <= 0
    IN  /\ Len(f) = 5
        /\ f[1].lit = "" /\ f[5].lit = ""
        /\ f[1].suffix = IF human THEN units[unit + 1] ELSE "%"
        /\ f[4] = Lit("0")
        /\ (f[2] = Lit("U") /\ f[3] = Lit("U")) <=> disabled
        /\ (f[2] = Lit("U") \/ f[3] = Lit("U")) <=> disabled
        /\ ~disabled =>
             /\ f[2].lit = "" /\ f[3].lit = ""
             /\ ~human => /\ UpTo(f[2].n, 100 * v.warningPercentage)
                          /\ UpTo(f[3].n, 100 * v.criticalPercentage)
                          /\ f[5].n = 10000
             /\ (human /\ bytesPerUnit > 0) =>
                  /\ UpTo(f[2].n, (10 * v.warningPercentage * v.max) \div bytesPerUnit)
                  /\ UpTo(f[3].n, (10 * v.criticalPercentage * v.max) \div bytesPerUnit)
                  /\ f[5].n = (1000 * v.max) \div bytesPerUnit

C7_PercentageTruncates ==
    \A c \in Categories :
        cs[c].done =>
            LET h == cs[c].val
                v == ValueOf(c)
                crit == v.criticalPercentage > 0 /\ Exceeds(c, FloorPercent(c), v.criticalPercentage)
                warn == v.warningPercentage > 0 /\ Exceeds(c, FloorPercent(c), v.warningPercentage)
            IN  /\ h * v.max <= 10000 * v.value
                /\ (h + 1) * v.max > 10000 * v.value
                /\ h = FloorPercent(c)
                /\ cs[c].status = IF crit THEN CRITICAL ELSE IF warn THEN WARNING ELSE OK
                /\ Reported =>
                     \A i \in 5 .. 8 :
                         Report.perf[i][1] = c => Report.perf[i][2][1].n = h

\* free = 602 of 2007 is 29.995.. %: 29.99 after truncation, below the
\* critical threshold 30, where rounding would give 30.00
C7_Witness ==
    /\ Reported
    /\ si.totalram = 2007 /\ si.freeram = 602
    /\ free.criticalPercentage = 30
    /\ cs["free"].val = 2999
    /\ cs["free"].status = CRITICAL

\* C8: the reason is empty exactly when the severity is OK; otherwise it is
\* "<percentage>% <comparator> <exceeded>%" of the first category, in the
\* order free, shared, buffer, used, whose severity equals the overall one.
FirstWithStatus(st) ==
    LET i == CHOOSE k \in 1 .. 4 :
                 /\ cs[EvalOrder[k]].done /\ cs[EvalOrder[k]].status = st
                 /\ \A j \in 1 .. (k - 1) :
                        ~(cs[EvalOrder[j]].done /\ cs[EvalOrder[j]].status = st)
    IN  EvalOrder[i]

Explanation(cat) ==
    << cs[cat].val, IF Below(cat) THEN " < " ELSE " > ", cs[cat].exceededValue >>

C8_EarliestWorstExplains ==
    /\ (reason = << >>) <=> (s = OK)
    /\ s # OK => reason = Explanation(FirstWithStatus(s))
    /\ Reported => Report.reason = reason

\* free and shared are both WARNING (free explains at that point), then
\* buffer and used are both CRITICAL: buffer explains
C8_Witness ==
    /\ Reported
    /\ cs["free"].status = WARNING /\ cs["shared"].status = WARNING
    /\ cs["buffer"].status = CRITICAL /\ cs["used"].status = CRITICAL
    /\ reason = Explanation("buffer")
    /\ reason # Explanation("used")

\* C9: for every unit exponent 0..6 and every mem_unit, bytesPerUnit is
\* non-zero and is the exact quotient 1024^unit / mem_unit, which fits 32
\* bits, and the unit indexes the label table.
C9_BytesPerUnitExact ==
    pc \in { "limits", "checkFree", "checkShared", "checkBuffer", "checkUsed",
             "print", "done" } /\ ~Failed =>
        LET e == 10 * unit - Log2(si.mem_unit)
        IN  /\ unit + 1 \in DOMAIN units
            /\ bytesPerUnit # 0
            /\ e >= 0 /\ e < 32
            /\ e < 31 => bytesPerUnit = 2 ^ e

\* C10 as claimed: whenever free, shared and buffer are each at most total,
\* used lies in 0..total, the four add up to total and the used percentage
\* lies in 0..100.
UsedInRange ==
    /\ used.value >= 0
    /\ used.value <= si.totalram
    /\ used.value + si.freeram + si.sharedram + si.bufferram = si.totalram
    /\ cs["used"].done => (cs["used"].val >= 0 /\ cs["used"].val <= 10000)

C10_UsedInRangeEachBounded ==
    ( /\ LimitsApplied
      /\ si.totalram > 0
      /\ si.freeram <= si.totalram
      /\ si.sharedram <= si.totalram
      /\ si.bufferram <= si.totalram )
    => UsedInRange

\* C10 amended: whenever free + shared + buffer is at most total, used lies
\* in 0..total, the four add up to total and the used percentage lies in
\* 0..100.
C10_UsedInRangeSumBounded ==
    ( /\ LimitsApplied
      /\ si.totalram > 0
      /\ si.freeram + si.sharedram + si.bufferram <= si.totalram )
    => UsedInRange

C10_Witness ==
    /\ Reported
    /\ si.freeram > 0 /\ si.sharedram > 0 /\ si.bufferram > 0
    /\ si.freeram + si.sharedram + si.bufferram < si.totalram
    /\ used.value > 0
    /\ cs["used"].val > 0

===========================================================================
